---- MODULE Spec2Model ----
(***************************************************************************)
(* A model of run.py, the polling relay between a Telegram account and the *)
(* Gemini backend: the dedup store (processed_ids.txt and processed_ids),  *)
(* the per-user conversation history, the prompt builder and main()'s      *)
(* login flow and polling loop.                                            *)
(*                                                                         *)
(* Text is a sequence of one-character strings, so that formatting an id   *)
(* into a line of the file, parsing a line back and searching an error     *)
(* message for "method" are computed and not assumed.                      *)
(***************************************************************************)
EXTENDS Integers, Sequences, FiniteSets, TLC

VARIABLES
    pc,                   \* where main() is: see PcValues
    authorized,           \* client.is_user_authorized() of the current client
    processed_file,       \* PROCESSED_FILE: the lines of processed_ids.txt
    processed_ids,        \* main()'s local set processed_ids
    conversation_history, \* the module-level defaultdict(list): user -> list
    chat,                 \* the chat source: all messages, oldest first
    messages,             \* the batch of the current cycle (line 137)
    idx,                  \* how many messages of reversed(messages) are done
    elapsed,              \* time.time() - last_check_time, saturated
    checked,              \* the elapsed time line 203 read last
    runs,                 \* process runs started so far
    cycles,               \* polls (line 137) so far, of all runs
    logins,               \* main() frames below the current one (line 111)
    disconnects,          \* client.disconnect() calls of the current run
    loginFailed,          \* a handshake step of this run was refused
    events,               \* backend calls and replies of the cycle, until its sleep
    replyCount,           \* replies per message id in the current run
    callCount,            \* backend calls per message id in the current run
    dropped,              \* ids a compaction removed in the current run
    recorded,             \* ids save_processed_id was executed for, ever
    appended              \* every (role, text) given to update_history, per user

vars == <<pc, authorized, processed_file, processed_ids, conversation_history,
          chat, messages, idx, elapsed, checked, runs, cycles, logins,
          disconnects, loginFailed,
          events, replyCount, callCount, dropped, recorded, appended>>

----------------------------------------------------------------------------
(* Program constants. *)

MAX_HISTORY == 10
FetchLimit == 20
CompactKeep == 1000
CleanupPeriod == 600
SleepSecs == 2
ErrorSleepSecs == 5
StatusOk == 200

(* Bounds of the model. *)

MaxMsgs == 2        \* messages the chat source receives
MaxCycles == 2      \* polls, of all process runs together
MaxRuns == 2        \* process runs (one restart)
MaxLogins == 1      \* successful logins per run (recursive main())
MaxAppends == 23    \* update_history calls in SpecHist
MaxAssistant == 1   \* of which with role Assistant
MaxLines == 3       \* lines of the file in SpecLoad

----------------------------------------------------------------------------
(* Text. *)

Digit == <<"0", "1", "2", "3", "4", "5", "6", "7", "8", "9">>

DigitChars == {Digit[i] : i \in 1..10}

Whitespace == {" ", "\n", "\t"}

DigitValue(c) == (CHOOSE i \in 1..10 : Digit[i] = c) - 1

RECURSIVE FormatNat(_)
(* f"{msg_id}" for msg_id >= 0: the decimal digits. *)
FormatNat(n) ==
    IF n < 10 THEN <<Digit[n + 1]>>
    ELSE Append(FormatNat(n \div 10), Digit[(n % 10) + 1])

(* f"{msg_id}\n": the line save_processed_id writes. *)
FormatLine(n) ==
    IF n < 0 THEN <<"-">> \o FormatNat(0 - n) \o <<"\n">>
    ELSE FormatNat(n) \o <<"\n">>

RECURSIVE LStrip(_)
LStrip(s) ==
    IF s # <<>> /\ Head(s) \in Whitespace THEN LStrip(Tail(s)) ELSE s

RECURSIVE RStrip(_)
RStrip(s) ==
    IF s # <<>> /\ s[Len(s)] \in Whitespace
    THEN RStrip(SubSeq(s, 1, Len(s) - 1)) ELSE s

(* str.strip() *)
Strip(s) == RStrip(LStrip(s))

RECURSIVE DigitsValue(_)
DigitsValue(s) ==
    IF s = <<>> THEN 0
    ELSE 10 * DigitsValue(SubSeq(s, 1, Len(s) - 1)) + DigitValue(s[Len(s)])

AllDigits(s) == s # <<>> /\ \A i \in 1..Len(s) : s[i] \in DigitChars

(* int(s) raises ValueError unless s is an optional sign and digits       *)
(* (surrounding whitespace allowed; underscores are not modelled).        *)
IntOk(s) ==
    LET t == Strip(s) IN
    /\ t # <<>>
    /\ IF Head(t) \in {"+", "-"} THEN AllDigits(Tail(t)) ELSE AllDigits(t)

IntValue(s) ==
    LET t == Strip(s) IN
    IF Head(t) = "-" THEN 0 - DigitsValue(Tail(t))
    ELSE IF Head(t) = "+" THEN DigitsValue(Tail(t))
    ELSE DigitsValue(t)

LowerOf(c) ==
    CASE c = "M" -> "m" [] c = "E" -> "e" [] c = "T" -> "t" [] c = "H" -> "h"
      [] c = "O" -> "o" [] c = "D" -> "d" [] c = "U" -> "u" [] c = "N" -> "n"
      [] c = "K" -> "k" [] c = "W" -> "w" [] c = "R" -> "r" [] c = "Q" -> "q"
      [] OTHER -> c

(* str.lower() on the letters the model's messages use *)
Lower(s) == [i \in 1..Len(s) |-> LowerOf(s[i])]

(* needle in s *)
Contains(s, needle) ==
    \E i \in 0..(Len(s) - Len(needle)) : SubSeq(s, i + 1, i + Len(needle)) = needle

MethodWord == <<"m", "e", "t", "h", "o", "d">>

----------------------------------------------------------------------------
(* The dedup store. *)

(* load_processed_ids(): the set of the integers of the non-blank lines;   *)
(* a line int() rejects raises inside the comprehension, and so does a     *)
(* failing open or read (readFault): the bare except returns set().  A     *)
(* missing file is the empty sequence of lines.                            *)
load_processed_ids(file, readFault) ==
    LET lines == {i \in 1..Len(file) : Strip(file[i]) # <<>>} IN
    IF readFault \/ \E i \in lines : ~IntOk(file[i]) THEN {}
    ELSE {IntValue(file[i]) : i \in lines}

(* save_processed_id(msg_id): append the line; a failing open or write is  *)
(* swallowed by the bare except and leaves the file as it was.             *)
save_processed_id(file, msg_id, writeOk) ==
    IF writeOk THEN Append(file, FormatLine(msg_id)) ELSE file

----------------------------------------------------------------------------
(* Conversation memory and the prompt builder. *)

Roles == {"User", "Assistant"}

(* s[-n:] for n > 0 *)
LastN(s, n) == IF Len(s) <= n THEN s ELSE SubSeq(s, Len(s) - n + 1, Len(s))

(* conversation_history[user_id] on the defaultdict: the stored list, an   *)
(* empty list for a user it does not hold.                                 *)
HistoryOf(h, user_id) == IF user_id \in DOMAIN h THEN h[user_id] ELSE <<>>

(* The defaultdict after conversation_history[user_id] was evaluated: a    *)
(* missing key is inserted with an empty list.                             *)
Touched(h, user_id) ==
    [u \in DOMAIN h \cup {user_id} |-> HistoryOf(h, u)]

(* update_history cutting the list at its end: the oldest entries stay. *)
update_history_keeping_oldest(h, user_id, role, message) ==
    LET grown == Append(HistoryOf(h, user_id), <<role, message>>)
        kept == IF Len(grown) > MAX_HISTORY * 2
                THEN SubSeq(grown, 1, MAX_HISTORY * 2) ELSE grown
    IN  [u \in DOMAIN h \cup {user_id} |-> IF u = user_id THEN kept ELSE h[u]]

(* update_history appending nothing. *)
update_history_dropping_turn(h, user_id, role, message) == Touched(h, user_id)

(* update_history storing every turn as the assistant's. *)
update_history_as_assistant(h, user_id, role, message) ==
    LET grown == Append(HistoryOf(h, user_id), <<"Assistant", message>>)
        kept == IF Len(grown) > MAX_HISTORY * 2
                THEN LastN(grown, MAX_HISTORY * 2) ELSE grown
    IN  [u \in DOMAIN h \cup {user_id} |-> IF u = user_id THEN kept ELSE h[u]]

(* update_history(user_id, role, message): the history map afterwards. *)
update_history(h, user_id, role, message) ==
    LET grown == Append(HistoryOf(h, user_id), <<role, message>>)
        kept == IF Len(grown) > MAX_HISTORY * 2
                THEN LastN(grown, MAX_HISTORY * 2) ELSE grown
    IN  [u \in DOMAIN h \cup {user_id} |-> IF u = user_id THEN kept ELSE h[u]]

(* The entries build_prompt_with_history renders: history[-MAX_HISTORY:]. *)
RenderedEntries(history) == LastN(history, MAX_HISTORY)

RECURSIVE HistoryLines(_)
(* "{role}: {msg}\n" for each rendered entry, in order *)
HistoryLines(entries) ==
    IF entries = <<>> THEN <<>>
    ELSE <<Head(entries)[1], ": ", Head(entries)[2], "\n">>
         \o HistoryLines(Tail(entries))

KNOWLEDGE == "<RAG.KNOWLEDGE>"

PromptSuffix ==
    "Please respond appropriately based on the context and previous conversation."

(* build_prompt_with_history(user_id, current_message): the prompt, as the *)
(* sequence of its pieces.                                                 *)
build_prompt_with_history(h, user_id, current_message) ==
    LET history == HistoryOf(h, user_id)
        history_text ==
            IF history # <<>>
            THEN <<"Previous conversation:\n">>
                 \o HistoryLines(RenderedEntries(history)) \o <<"\n">>
            ELSE <<>>
    IN  <<KNOWLEDGE, "\n\n">> \o history_text
        \o <<"Current message: ", current_message, "\n\n", PromptSuffix>>

----------------------------------------------------------------------------
(* Messages of the chat source. *)

NoneText == [isNone |-> TRUE, s |-> ""]

Str(s) == [isNone |-> FALSE, s |-> s]

(* the truth value of msg.text: None and "" are false *)
Truthy(text) == ~text.isNone /\ text.s # ""

Senders == {7, 8}

(* Ids of this run's messages follow the ids of earlier runs' messages.    *)
FirstId == CompactKeep + 1

MsgIds == FirstId..(FirstId + MaxMsgs - 1)

NewMessage(id, sender, text, out, private) ==
    [id |-> id, sender_id |-> sender, text |-> text, out |-> out,
     is_private |-> private]

(* What a message says: the first message of a run differs from the later *)
(* ones, so that a turn in a history or a prompt tells its message.        *)
MessageText(id) == IF id = FirstId THEN "hi" ELSE "and then?"

(* The messages that arrive: an incoming private text of either sender,    *)
(* and the same message with one attribute changed: outgoing, without      *)
(* text (None and ""), outside a private chat.                             *)
Arrivals(id) ==
    { NewMessage(id, u, Str(MessageText(id)), FALSE, TRUE) : u \in Senders }
    \cup { NewMessage(id, 7, Str(MessageText(id)), TRUE, TRUE),
           NewMessage(id, 7, NoneText, FALSE, TRUE),
           NewMessage(id, 7, Str(""), FALSE, TRUE),
           NewMessage(id, 7, Str(MessageText(id)), FALSE, FALSE) }

(* client.get_messages(None, limit=n): the n most recent, newest first *)
get_messages(c, n) ==
    LET k == IF Len(c) < n THEN Len(c) ELSE n
    IN  [i \in 1..k |-> c[Len(c) - i + 1]]

----------------------------------------------------------------------------
(* Responses of generate_G2_flash. *)

ErrMethod == <<"N", "o", " ", "s", "u", "c", "h", " ", "M", "e", "t", "h", "o", "d">>

ErrQuota == <<"Q", "u", "o", "t", "a">>

UnknownError == <<"U", "n", "k", "n", "o", "w", "n", " ", "e", "r", "r", "o", "r">>

(* A value of the response: whether it is a dict, whether it has the field *)
(* read from it (content of a result, message of an error), that field,    *)
(* and str() of the value.                                                 *)
NoValue == [isDict |-> FALSE, has |-> FALSE, field |-> <<>>, str |-> <<>>]

ResultValues ==
    { [isDict |-> TRUE, has |-> TRUE, field |-> <<"p", "o", "n", "g">>,
       str |-> <<"{", "c", ":", "p", "o", "n", "g", "}">>],
      [isDict |-> TRUE, has |-> FALSE, field |-> <<>>,
       str |-> <<"{", "t", ":", "p", "o", "n", "g", "}">>],
      [isDict |-> FALSE, has |-> FALSE, field |-> <<>>, str |-> <<"p", "o", "n", "g", "!">>] }

ErrorValues ==
    { [isDict |-> TRUE, has |-> TRUE, field |-> ErrMethod, str |-> ""],
      [isDict |-> TRUE, has |-> TRUE, field |-> ErrQuota, str |-> ""],
      [isDict |-> TRUE, has |-> FALSE, field |-> <<>>, str |-> ""],
      [isDict |-> FALSE, has |-> FALSE, field |-> <<>>, str |-> "boom"] }

(* What a call of generate_G2_flash can produce: an exception, a value     *)
(* that is no dict, or a dict with a result, an error, both or neither.    *)
Responses ==
    { [raises |-> TRUE, isDict |-> FALSE, hasResult |-> FALSE, result |-> NoValue,
       hasError |-> FALSE, error |-> NoValue],
      [raises |-> FALSE, isDict |-> FALSE, hasResult |-> FALSE, result |-> NoValue,
       hasError |-> FALSE, error |-> NoValue],
      [raises |-> FALSE, isDict |-> TRUE, hasResult |-> FALSE, result |-> NoValue,
       hasError |-> FALSE, error |-> NoValue] }
    \cup { [raises |-> FALSE, isDict |-> TRUE, hasResult |-> TRUE, result |-> r,
            hasError |-> FALSE, error |-> NoValue] : r \in ResultValues }
    \cup { [raises |-> FALSE, isDict |-> TRUE, hasResult |-> FALSE, result |-> NoValue,
            hasError |-> TRUE, error |-> e] : e \in ErrorValues }
    \cup { [raises |-> FALSE, isDict |-> TRUE, hasResult |-> TRUE, result |-> r,
            hasError |-> TRUE, error |-> e]
           : r \in {x \in ResultValues : x.has}, e \in {x \in ErrorValues : x.has} }

----------------------------------------------------------------------------
(* The state machine of main(). *)

PcValues ==
    {"start", "login_request", "login_confirm", "startup", "fetch", "process",
     "sleep", "done"}

Polling == {"fetch", "process", "sleep"}

(* The file earlier runs left after handling messages 1..CompactKeep. *)
OldFile == [i \in 1..CompactKeep |-> FormatLine(i)]

NoCounts == [i \in MsgIds |-> 0]

Init ==
    /\ pc = "start"
    /\ authorized \in BOOLEAN
    /\ processed_file = <<>>
    /\ processed_ids = {}
    /\ conversation_history = <<>>
    /\ chat = <<>>
    /\ messages = <<>>
    /\ idx = 0
    /\ elapsed = 0
    /\ checked = 0
    /\ runs = 1
    /\ cycles = 0
    /\ logins = 0
    /\ disconnects = 0
    /\ loginFailed = FALSE
    /\ events = <<>>
    /\ replyCount = NoCounts
    /\ callCount = NoCounts
    /\ dropped = {}
    /\ recorded = {}
    /\ appended = <<>>

(* Only the comparison with CleanupPeriod reads the clock, so the elapsed  *)
(* time is kept up to CleanupPeriod + 1.                                   *)
Later(e, d) == IF e + d > CleanupPeriod THEN CleanupPeriod + 1 ELSE e + d

(* Time the blocking calls of a cycle take on top of its sleep. *)
ExtraDelays == {598, 599}

(* Lines 83-88, 115-116: the client is obtained and asked for its state. *)
Start ==
    /\ pc = "start"
    /\ pc' = IF authorized THEN "startup" ELSE "login_request"
    /\ UNCHANGED <<authorized, processed_file, processed_ids, conversation_history,
                   chat, messages, idx, elapsed, checked, runs, cycles, logins, disconnects,
                   loginFailed, events, replyCount, callCount, dropped, recorded,
                   appended>>

(* Lines 91-94: telegram_login_request; a status other than 200 has no     *)
(* branch of its own and execution continues at line 118.                  *)
LoginRequest(status) ==
    /\ pc = "login_request"
    /\ pc' = IF status = StatusOk THEN "login_confirm" ELSE "startup"
    /\ loginFailed' = (loginFailed \/ status # StatusOk)
    /\ UNCHANGED <<authorized, processed_file, processed_ids, conversation_history,
                   chat, messages, idx, elapsed, checked, runs, cycles, logins, disconnects,
                   events, replyCount, callCount, dropped, recorded, appended>>

(* Lines 95-114: telegram_login_confirm. 200: the token is stored, the     *)
(* client disconnected and main() called again, with a new client whose    *)
(* authorization is the chat platform's to decide. Otherwise main()        *)
(* returns, through the finally of line 212.                               *)
LoginConfirm(c_status, nowAuthorized) ==
    /\ pc = "login_confirm"
    /\ IF c_status = StatusOk
       THEN /\ logins < MaxLogins
            /\ pc' = "start"
            /\ authorized' = nowAuthorized
            /\ logins' = logins + 1
            /\ disconnects' = disconnects + 1
            /\ UNCHANGED loginFailed
       ELSE /\ pc' = "done"
            /\ loginFailed' = TRUE
            /\ disconnects' = disconnects + 1 + logins
            /\ UNCHANGED <<authorized, logins>>
    /\ UNCHANGED <<processed_file, processed_ids, conversation_history, chat,
                   messages, idx, elapsed, checked, runs, cycles, events, replyCount,
                   callCount, dropped, recorded, appended>>

(* Lines 118-131: load the processed ids, probe the chat (the result is    *)
(* only printed) and take the time.                                        *)
Startup(readFault) ==
    /\ pc = "startup"
    /\ processed_ids' = load_processed_ids(processed_file, readFault)
    /\ elapsed' = 0
    /\ pc' = "fetch"
    /\ UNCHANGED <<authorized, processed_file, conversation_history, chat,
                   messages, idx, checked, runs, cycles, logins, disconnects, loginFailed,
                   events, replyCount, callCount, dropped, recorded, appended>>

(* The chat source receives a message. The loop reads the chat only at     *)
(* line 137, so arrivals are taken right before a poll that reads them.    *)
Arrive(m) ==
    /\ pc = "fetch"
    /\ cycles < MaxCycles
    /\ Len(chat) < MaxMsgs
    /\ m \in Arrivals(FirstId + Len(chat))
    /\ chat' = Append(chat, m)
    /\ UNCHANGED <<pc, authorized, processed_file, processed_ids,
                   conversation_history, messages, idx, elapsed, checked, runs, cycles,
                   logins, disconnects, loginFailed, events, replyCount, callCount,
                   dropped, recorded, appended>>

(* A poll whose fault nothing catches: main() ends, through its finally. *)
FetchUncaught(fault) ==
    /\ pc = "fetch"
    /\ cycles < MaxCycles
    /\ cycles' = cycles + 1
    /\ idx' = 0
    /\ IF fault
       THEN /\ messages' = <<>>
            /\ elapsed' = elapsed
            /\ pc' = "done"
            /\ disconnects' = disconnects + 1 + logins
       ELSE /\ messages' = get_messages(chat, FetchLimit)
            /\ elapsed' = elapsed
            /\ pc' = IF messages' # <<>> THEN "process" ELSE "sleep"
            /\ UNCHANGED disconnects
    /\ UNCHANGED <<authorized, processed_file, processed_ids, conversation_history,
                   chat, checked, runs, logins, loginFailed, events,
                   replyCount, callCount, dropped, recorded, appended>>

(* Lines 137-139 and 209-211: one poll. A fault of get_messages goes to    *)
(* the handler of line 209, which sleeps and polls again.                  *)
Fetch(fault) ==
    /\ pc = "fetch"
    /\ cycles < MaxCycles
    /\ cycles' = cycles + 1
    /\ idx' = 0
    /\ IF fault
       THEN /\ messages' = <<>>
            /\ \E extra \in ExtraDelays :
                   elapsed' = Later(elapsed, ErrorSleepSecs + extra)
            /\ pc' = "fetch"
       ELSE /\ messages' = get_messages(chat, FetchLimit)
            /\ elapsed' = elapsed
            /\ pc' = IF messages' # <<>> THEN "process" ELSE "sleep"
    /\ UNCHANGED <<authorized, processed_file, processed_ids, conversation_history,
                   chat, checked, runs, logins, disconnects, loginFailed, events,
                   replyCount,
                   callCount, dropped, recorded, appended>>

----------------------------------------------------------------------------
(* The handling of one message, lines 142-198. *)

(* The batch walked in the order it was fetched, newest first. *)
CurrentMsgAsFetched == messages[idx + 1]

(* Line 142: reversed(messages), of which idx are done. *)
CurrentMsg == messages[Len(messages) - idx]

(* The filter without its test of processed_ids. *)
SkipsWithoutDedup(m, ids) == m.out \/ ~Truthy(m.text)

(* Line 145: the messages the loop passes over. *)
Skips(m, ids) == m.out \/ ~Truthy(m.text) \/ m.id \in ids

(* Every message that passes the filter is relayed. *)
RelaysAnyChat(m) == TRUE

(* Line 148: the messages that are relayed to the backend. *)
Relays(m) == m.is_private

(* Lines 173-176: the text of the reply. *)
ReplyText(result) ==
    IF result.isDict /\ result.has THEN result.field ELSE result.str

(* Line 185: response['error'].get('message', 'Unknown error') *)
ErrorText(error) == IF error.has THEN error.field ELSE UnknownError

(* Line 188: the errors after which the branch does not mark the message. *)
MentionsMethod(error_msg) == Contains(Lower(error_msg), MethodWord)

(* A result branch taken for every dict the backend returns. *)
IsAnyDict(resp) == ~resp.raises /\ resp.isDict

(* Lines 169-170: the response is a dict with a result. *)
IsResult(resp) == ~resp.raises /\ resp.isDict /\ resp.hasResult

(* Line 184: the response is a dict with an error and no result. *)
IsError(resp) == ~resp.raises /\ resp.isDict /\ ~resp.hasResult /\ resp.hasError

(* Lines 178-190: the branch reaches its own add and save: after a reply   *)
(* that did not raise, or after an error that does not mention "method"    *)
(* (an error that is no dict raises at line 185).                          *)
BranchMarks(resp, replyOk) ==
    \/ IsResult(resp) /\ replyOk
    \/ IsError(resp) /\ resp.error.isDict /\ ~MentionsMethod(ErrorText(resp.error))

(* What the backend answered, read off the response itself: a result, an  *)
(* error whose message is ErrMethod, another error, anything else that was *)
(* returned, or an exception.                                              *)
Answer(resp) ==
    IF resp.raises THEN "fault"
    ELSE IF resp.isDict /\ resp.hasResult THEN "result"
    ELSE IF resp.isDict /\ resp.hasError
    THEN (IF resp.error.isDict /\ resp.error.has /\ resp.error.field = ErrMethod
          THEN "method_error" ELSE "error")
    ELSE "unrecognized"

(* An add that forgets the id. *)
AddNothing(ids, msg_id) == ids

(* An assignment in place of the add: the set becomes the one id. *)
AddAlone(ids, msg_id) == {msg_id}

(* Lines 181, 189, 197: processed_ids.add(msg.id) *)
Add(ids, msg_id) == ids \cup {msg_id}

(* The record of a backend call: generate_G2_flash was called for message  *)
(* m with this prompt and answered resp (result: response['result']).      *)
CallEvent(m, prompt, resp) ==
    [op |-> "call", id |-> m.id, prompt |-> prompt, text |-> <<>>,
     answer |-> Answer(resp), result |-> resp.result]

(* The record of a reply: msg.reply(text) was called on message m. *)
ReplyEvent(m, text) ==
    [op |-> "reply", id |-> m.id, prompt |-> <<>>, text |-> text, answer |-> "",
     result |-> NoValue]

Bump(count, id) == [count EXCEPT ![id] = @ + 1]

AppendedOf(a, u) == IF u \in DOMAIN a THEN a[u] ELSE <<>>

Noted(a, u, entry) ==
    [v \in DOMAIN a \cup {u} |-> IF v = u THEN Append(AppendedOf(a, u), entry) ELSE a[v]]

(* The outcomes of the collaborators an iteration can meet: the backend's  *)
(* response if it calls the backend, whether msg.reply raises if it        *)
(* replies, whether the file can be written if it marks the message. An    *)
(* outcome that is not met is fixed.                                       *)
Relevant(m, ids, resp, replyOk, writeOk) ==
    LET calls == ~Skips(m, ids) /\ Relays(m) IN
    /\ calls \/ resp = CHOOSE r \in Responses : r.raises
    /\ (calls /\ IsResult(resp)) \/ replyOk
    /\ ~Skips(m, ids) \/ writeOk

(* One iteration of the for loop of line 142. The add and save of lines   *)
(* 197-198 close every iteration that line 145 did not skip, after the    *)
(* add and save a branch may have done itself (lines 181-182, 189-190).   *)
ProcessMsg(resp, replyOk, writeOk) ==
    /\ pc = "process"
    /\ Relevant(CurrentMsg, processed_ids, resp, replyOk, writeOk)
    /\ LET m == CurrentMsg
           text == m.text.s
           h1 == update_history(conversation_history, m.sender_id, "User", text)
           prompt == build_prompt_with_history(h1, m.sender_id, text)
           file1 == IF BranchMarks(resp, replyOk)
                    THEN save_processed_id(processed_file, m.id, writeOk)
                    ELSE processed_file
       IN  IF Skips(m, processed_ids)
           THEN UNCHANGED <<processed_file, processed_ids, conversation_history,
                            events, replyCount, callCount, recorded, appended>>
           ELSE IF Relays(m)
           THEN /\ conversation_history' = Touched(h1, m.sender_id)
                /\ appended' = Noted(appended, m.sender_id, <<"User", text>>)
                /\ callCount' = Bump(callCount, m.id)
                /\ events' = IF IsResult(resp)
                             THEN events \o <<CallEvent(m, prompt, resp),
                                              ReplyEvent(m, ReplyText(resp.result))>>
                             ELSE Append(events, CallEvent(m, prompt, resp))
                /\ replyCount' = IF IsResult(resp) THEN Bump(replyCount, m.id)
                                 ELSE replyCount
                /\ processed_ids' = Add(processed_ids, m.id)
                /\ recorded' = recorded \cup {m.id}
                /\ processed_file' = save_processed_id(file1, m.id, writeOk)
           ELSE /\ processed_ids' = Add(processed_ids, m.id)
                /\ recorded' = recorded \cup {m.id}
                /\ processed_file' = save_processed_id(processed_file, m.id, writeOk)
                /\ UNCHANGED <<conversation_history, events, replyCount, callCount,
                               appended>>
    /\ idx' = idx + 1
    /\ pc' = IF idx' = Len(messages) THEN "sleep" ELSE "process"
    /\ UNCHANGED <<authorized, chat, messages, elapsed, checked, runs, cycles, logins,
                   disconnects, loginFailed, dropped>>

(* A cleanup that is due as soon as CleanupPeriod seconds have passed. *)
CleanupDueAtPeriod(e) == e >= CleanupPeriod

(* Line 203: the cleanup is due. *)
CleanupDue(e) == e > CleanupPeriod

(* Line 205: the set is cut. *)
TooMany(ids) == Cardinality(ids) > CompactKeep

(* The j smallest ids of old (old holds at least j). *)
Lowest(old, j) ==
    IF j = 0 THEN {}
    ELSE LET t == CHOOSE t \in 1..(FirstId + MaxMsgs) :
                      Cardinality({x \in old : x <= t}) = j
         IN  {x \in old : x <= t}

(* Line 206: set(list(processed_ids)[-1000:]) keeps the last CompactKeep   *)
(* ids in the iteration order of the set, which the language leaves open:  *)
(* any Cardinality(ids) - CompactKeep ids may go. Of this run's message    *)
(* ids every choice is taken. No message fetched in this run carries an id *)
(* of an earlier run, so which of those go shows nowhere, and the smallest *)
(* go.                                                                     *)
Compactions(ids) ==
    LET k == Cardinality(ids) - CompactKeep
        live == ids \cap MsgIds
        old == ids \ MsgIds
    IN  { ids \ (gone \cup Lowest(old, k - Cardinality(gone))) :
            gone \in {g \in SUBSET live :
                        Cardinality(g) <= k /\ k - Cardinality(g) <= Cardinality(old)} }

(* Lines 200-207: the sleep between polls and the periodic cleanup. *)
Sleep(extra) ==
    /\ pc = "sleep"
    /\ pc' = "fetch"
    /\ events' = <<>>
    /\ LET e == Later(elapsed, SleepSecs + extra) IN
       /\ checked' = e
       /\ IF CleanupDue(e)
          THEN /\ elapsed' = 0
               /\ IF TooMany(processed_ids)
                  THEN \E kept \in Compactions(processed_ids) :
                           /\ processed_ids' = kept
                           /\ dropped' = dropped \cup (processed_ids \ kept)
                  ELSE UNCHANGED <<processed_ids, dropped>>
          ELSE /\ elapsed' = e
               /\ UNCHANGED <<processed_ids, dropped>>
    /\ UNCHANGED <<authorized, processed_file, conversation_history, chat, messages,
                   idx, runs, cycles, logins, disconnects, loginFailed,
                   replyCount, callCount, recorded, appended>>

(* An end of the process that releases no client. *)
InterruptWithoutRelease ==
    /\ pc # "done"
    /\ pc' = "done"
    /\ processed_ids' = {}
    /\ conversation_history' = <<>>
    /\ messages' = <<>>
    /\ idx' = 0
    /\ elapsed' = 0
    /\ checked' = 0
    /\ events' = <<>>
    /\ appended' = <<>>
    /\ replyCount' = NoCounts
    /\ callCount' = NoCounts
    /\ dropped' = {}
    /\ UNCHANGED <<authorized, processed_file, chat, runs, cycles, logins,
                   disconnects, loginFailed, recorded>>

(* The process is interrupted from outside: the finally of line 212 of     *)
(* every main() frame runs and the process ends, and its memory with it.   *)
Interrupt ==
    /\ pc # "done"
    /\ pc' = "done"
    /\ disconnects' = disconnects + 1 + logins
    /\ processed_ids' = {}
    /\ conversation_history' = <<>>
    /\ messages' = <<>>
    /\ idx' = 0
    /\ elapsed' = 0
    /\ checked' = 0
    /\ events' = <<>>
    /\ appended' = <<>>
    /\ replyCount' = NoCounts
    /\ callCount' = NoCounts
    /\ dropped' = {}
    /\ UNCHANGED <<authorized, processed_file, chat, runs, cycles, logins,
                   loginFailed, recorded>>

(* The operator runs the program again: a new process, with the file and   *)
(* the chat as they are.                                                   *)
Restart(nowAuthorized) ==
    /\ pc = "done"
    /\ runs < MaxRuns
    /\ runs' = runs + 1
    /\ pc' = "start"
    /\ authorized' = nowAuthorized
    /\ logins' = 0
    /\ disconnects' = 0
    /\ loginFailed' = FALSE
    /\ UNCHANGED <<processed_file, processed_ids, conversation_history, chat,
                   messages, idx, elapsed, checked, cycles, events, replyCount, callCount,
                   dropped, recorded, appended>>

Statuses == {StatusOk, 400}

Next ==
    \/ Start
    \/ \E status \in Statuses : LoginRequest(status)
    \/ \E c_status \in Statuses, a \in BOOLEAN : LoginConfirm(c_status, a)
    \/ \E readFault \in BOOLEAN : Startup(readFault)
    \/ \E m \in Arrivals(FirstId + Len(chat)) : Arrive(m)
    \/ \E fault \in BOOLEAN : Fetch(fault)
    \/ \E resp \in Responses, replyOk \in BOOLEAN, writeOk \in BOOLEAN :
          ProcessMsg(resp, replyOk, writeOk)
    \/ \E extra \in ExtraDelays : Sleep(extra)
    \/ Interrupt
    \/ \E a \in BOOLEAN : Restart(a)

Spec == Init /\ [][Next]_vars

(* One unattended run over the file earlier runs left (OldFile): the       *)
(* stored session is accepted, the run is at line 118, and the file can be *)
(* read and written.                                                       *)
InitOld ==
    /\ pc = "startup"
    /\ authorized = TRUE
    /\ processed_file = OldFile
    /\ processed_ids = {}
    /\ conversation_history = <<>>
    /\ chat = <<>>
    /\ messages = <<>>
    /\ idx = 0
    /\ elapsed = 0
    /\ checked = 0
    /\ runs = 1
    /\ cycles = 0
    /\ logins = 0
    /\ disconnects = 0
    /\ loginFailed = FALSE
    /\ events = <<>>
    /\ replyCount = NoCounts
    /\ callCount = NoCounts
    /\ dropped = {}
    /\ recorded = {}
    /\ appended = <<>>

NextOld ==
    \/ Startup(FALSE)
    \/ \E m \in Arrivals(FirstId + Len(chat)) : Arrive(m)
    \/ \E fault \in BOOLEAN : Fetch(fault)
    \/ \E resp \in Responses, replyOk \in BOOLEAN : ProcessMsg(resp, replyOk, TRUE)
    \/ \E extra \in ExtraDelays : Sleep(extra)

SpecOld == InitOld /\ [][NextOld]_vars

(* A run nobody terminates. main() is sequential and each of its calls     *)
(* returns or raises, so whenever the loop can take its next step (poll,   *)
(* handle a message, sleep) it takes it.                                   *)
PollStep ==
    \/ \E fault \in BOOLEAN : Fetch(fault)
    \/ \E resp \in Responses, replyOk \in BOOLEAN, writeOk \in BOOLEAN :
          ProcessMsg(resp, replyOk, writeOk)
    \/ \E extra \in ExtraDelays : Sleep(extra)

NextLive ==
    \/ Start
    \/ \E status \in Statuses : LoginRequest(status)
    \/ \E c_status \in Statuses, a \in BOOLEAN : LoginConfirm(c_status, a)
    \/ \E readFault \in BOOLEAN : Startup(readFault)
    \/ \E m \in Arrivals(FirstId + Len(chat)) : Arrive(m)
    \/ PollStep

SpecLive == Init /\ [][NextLive]_vars /\ WF_vars(PollStep)

----------------------------------------------------------------------------
(* Conversation memory on its own: any sequence of update_history and      *)
(* build_prompt_with_history calls for two users. The text of an entry is  *)
(* its number among the user's entries, so that entries can be told apart. *)

Sum(a) == LET n(u) == Len(AppendedOf(a, u)) IN n(7) + n(8)

Assistants(a) ==
    Cardinality({<<u, i>> \in Senders \X (1..MaxAppends) :
                    i <= Len(AppendedOf(a, u)) /\ AppendedOf(a, u)[i][1] = "Assistant"})

InitHist ==
    /\ pc = "history"
    /\ authorized = TRUE
    /\ processed_file = <<>>
    /\ processed_ids = {}
    /\ conversation_history = <<>>
    /\ chat = <<>>
    /\ messages = <<>>
    /\ idx = 0
    /\ elapsed = 0
    /\ checked = 0
    /\ runs = 1
    /\ cycles = 0
    /\ logins = 0
    /\ disconnects = 0
    /\ loginFailed = FALSE
    /\ events = <<>>
    /\ replyCount = NoCounts
    /\ callCount = NoCounts
    /\ dropped = {}
    /\ recorded = {}
    /\ appended = <<>>

(* update_history(user_id, role, message) *)
AppendTurn(user_id, role) ==
    /\ pc = "history"
    /\ Sum(appended) < MaxAppends
    /\ role = "Assistant" => Assistants(appended) < MaxAssistant
    /\ LET message == FormatNat(Len(AppendedOf(appended, user_id)) + 1) IN
       /\ conversation_history' =
              update_history(conversation_history, user_id, role, message)
       /\ appended' = Noted(appended, user_id, <<role, message>>)
    /\ UNCHANGED <<pc, authorized, processed_file, processed_ids, chat, messages,
                   idx, elapsed, checked, runs, cycles, logins, disconnects, loginFailed,
                   events, replyCount, callCount, dropped, recorded>>

(* build_prompt_with_history(user_id, current_message): what the call      *)
(* leaves behind. The prompt it returns is a function of the state.        *)
BuildPrompt(user_id) ==
    /\ pc = "history"
    /\ conversation_history' = Touched(conversation_history, user_id)
    /\ UNCHANGED <<pc, authorized, processed_file, processed_ids, chat, messages,
                   idx, elapsed, checked, runs, cycles, logins, disconnects, loginFailed,
                   events, replyCount, callCount, dropped, recorded, appended>>

NextHist ==
    \/ \E u \in Senders, role \in Roles : AppendTurn(u, role)
    \/ \E u \in Senders : BuildPrompt(u)

SpecHist == InitHist /\ [][NextHist]_vars

----------------------------------------------------------------------------
(* load_processed_ids on its own: the program starts over a file of up to  *)
(* MaxLines lines, well-formed or not, that can be read.                   *)

LineAbc == <<"a", "b", "c", "\n">>

Line123 == <<"1", "2", "3", "\n">>

SampleLines ==
    { LineAbc, Line123, <<"\n">>, <<" ", "7", " ", "\n">>, <<"4", "2", "\n">>,
      <<"1", "2", "a", "\n">> }

RECURSIVE Files(_)
Files(n) ==
    IF n = 0 THEN {<<>>}
    ELSE Files(n - 1) \cup {Append(f, l) : f \in Files(n - 1), l \in SampleLines}

InitLoad ==
    /\ pc = "startup"
    /\ authorized = TRUE
    /\ processed_file \in Files(MaxLines)
    /\ processed_ids = {}
    /\ conversation_history = <<>>
    /\ chat = <<>>
    /\ messages = <<>>
    /\ idx = 0
    /\ elapsed = 0
    /\ checked = 0
    /\ runs = 1
    /\ cycles = 0
    /\ logins = 0
    /\ disconnects = 0
    /\ loginFailed = FALSE
    /\ events = <<>>
    /\ replyCount = NoCounts
    /\ callCount = NoCounts
    /\ dropped = {}
    /\ recorded = {}
    /\ appended = <<>>

NextLoad == Startup(FALSE)

SpecLoad == InitLoad /\ [][NextLoad]_vars

----------------------------------------------------------------------------
(* Properties. *)

(* A step that handles one message of the batch: the one idx places from  *)
(* the end of the batch as fetched.                                        *)
MsgStep == pc = "process" /\ pc' \in {"process", "sleep"} /\ idx' = idx + 1

(* C1: a message that is outgoing, has no text, is not from a private chat *)
(* or whose id is in processed_ids is handled without a backend call and   *)
(* without a reply.                                                        *)
C1_FilteredMessageIsNotRelayed ==
    [][ (MsgStep /\ LET m == messages[Len(messages) - idx] IN
                       \/ m.out
                       \/ m.text.isNone \/ m.text.s = ""
                       \/ ~m.is_private
                       \/ m.id \in processed_ids)
        => (events' = events /\ callCount' = callCount /\ replyCount' = replyCount)
      ]_vars

(* A message from outside a private chat was handled: marked, and neither  *)
(* sent to the backend nor answered.                                       *)
C1_Witness ==
    /\ pc = "sleep"
    /\ \E i \in 1..Len(messages) :
          /\ ~messages[i].is_private /\ ~messages[i].out /\ Truthy(messages[i].text)
          /\ messages[i].id \in processed_ids
          /\ callCount[messages[i].id] = 0
          /\ replyCount[messages[i].id] = 0

(* C2: when the messages of a poll have been handled, a message the        *)
(* backend answered with an error that mentions "method" is in neither     *)
(* processed_ids nor the file (so that the next poll sends it again).      *)
C2_MethodErrorLeavesUnmarked ==
    \A i \in 1..Len(events) :
        (pc = "sleep" /\ events[i].op = "call" /\ events[i].answer = "method_error")
        => /\ events[i].id \notin processed_ids
           /\ \A j \in 1..Len(processed_file) :
                  processed_file[j] # FormatLine(events[i].id)

(* C3: once a step of the login handshake was refused, the run is never in *)
(* the polling loop.                                                       *)
C3_FailedLoginNeverPolls == loginFailed => pc \notin Polling

(* C4: handling a message whose id is in processed_ids changes neither the *)
(* replies, the backend calls, the file, the set nor the history.          *)
C4_SeenMessageIsNoOp ==
    [][ (MsgStep /\ messages[Len(messages) - idx].id \in processed_ids)
        => /\ replyCount' = replyCount
           /\ callCount' = callCount
           /\ processed_file' = processed_file
           /\ processed_ids' = processed_ids
           /\ conversation_history' = conversation_history
      ]_vars

(* The second poll of a run fetched again a batch whose messages are all   *)
(* marked, one of them answered in the first poll, and passed over it.     *)
C4_Witness ==
    /\ pc = "sleep"
    /\ messages # <<>>
    /\ events = <<>>
    /\ \A i \in 1..Len(messages) : messages[i].id \in processed_ids
    /\ \E i \in 1..Len(messages) : replyCount[messages[i].id] = 1

(* C5, as claimed: no message id is replied to more than once in a run.    *)
C5_AtMostOneReply == \A id \in MsgIds : replyCount[id] <= 1

(* C5, amended: a message id is replied to more than once in a run only if *)
(* a compaction removed it from processed_ids.                             *)
C5_AtMostOneReplyUnlessDropped ==
    \A id \in MsgIds : replyCount[id] > 1 => id \in dropped

(* A compaction ran and kept the id of an answered message, which the next *)
(* poll fetched again and passed over.                                     *)
C5_Witness ==
    /\ pc = "sleep"
    /\ dropped # {}
    /\ events = <<>>
    /\ \E i \in 1..Len(messages) :
          /\ replyCount[messages[i].id] = 1
          /\ messages[i].id \notin dropped
          /\ messages[i].id \in processed_ids

(* C6: every id save_processed_id was executed for is an id the file       *)
(* yields when it is loaded.                                               *)
C6_RecordedIsDurable == recorded \subseteq load_processed_ids(processed_file, FALSE)

(* The lines of a file that hold an integer. *)
IntegerLines(file) == {i \in 1..Len(file) : IntOk(file[i])}

(* C7: load_processed_ids returns the integers of the well-formed lines of *)
(* the file, whatever other lines it holds.                                *)
C7_LoadSkipsMalformedLines ==
    pc = "fetch" =>
        processed_ids = {IntValue(processed_file[i]) : i \in IntegerLines(processed_file)}

IsSuffixOf(s, t) ==
    /\ Len(s) <= Len(t)
    /\ \A i \in 1..Len(s) : s[i] = t[Len(t) - Len(s) + i]

Least(a, b) == IF a < b THEN a ELSE b

(* C8: the stored history of a user is the last 2 * MAX_HISTORY of the     *)
(* entries appended for that user, and the prompt renders the last         *)
(* MAX_HISTORY of them, oldest first, one line each.                       *)
C8_HistoryIsBoundedSuffix ==
    \A u \in Senders :
        LET stored == HistoryOf(conversation_history, u)
            all == AppendedOf(appended, u)
            shown == Least(Len(all), MAX_HISTORY)
            prompt == build_prompt_with_history(conversation_history, u, "hi")
        IN  /\ Len(stored) = Least(Len(all), 2 * MAX_HISTORY)
            /\ IsSuffixOf(stored, all)
            /\ Len(prompt) = (IF shown = 0 THEN 6 ELSE 8 + 4 * shown)
            /\ \A k \in 1..shown :
                   /\ prompt[3 + 4 * (k - 1) + 1] = all[Len(all) - shown + k][1]
                   /\ prompt[3 + 4 * (k - 1) + 3] = all[Len(all) - shown + k][2]

(* More than 2 * MAX_HISTORY entries were appended for a user, an          *)
(* Assistant entry among those that are kept.                              *)
C8_Witness ==
    \E u \in Senders :
        /\ Len(AppendedOf(appended, u)) > 2 * MAX_HISTORY + 1
        /\ Len(HistoryOf(conversation_history, u)) = 2 * MAX_HISTORY
        /\ \E i \in 1..(2 * MAX_HISTORY) :
               HistoryOf(conversation_history, u)[i][1] = "Assistant"

(* The place of a message id in the batch as fetched, newest first. *)
FetchedAt(id) == CHOOSE k \in 1..Len(messages) : messages[k].id = id

(* C9: in a cycle, the reply to a message comes before every backend call  *)
(* and every reply for a message fetched as newer.                         *)
C9_RepliesOldestFirst ==
    \A i \in 1..Len(events), j \in 1..Len(events) :
        (events[i].op = "reply" /\ FetchedAt(events[j].id) < FetchedAt(events[i].id))
        => i < j

(* Two messages of one batch were both answered. *)
C9_Witness ==
    /\ pc = "sleep"
    /\ \E i \in 1..Len(events), j \in 1..Len(events) :
          /\ events[i].op = "reply" /\ events[j].op = "reply"
          /\ events[i].id # events[j].id

(* C10: the loop takes ids out of processed_ids only in its cleanup, when  *)
(* more than CleanupPeriod seconds have passed since the last one and the  *)
(* set holds more than CompactKeep ids, and then keeps CompactKeep of the  *)
(* ids it held; a set of CompactKeep ids or fewer is left as it is.        *)
C10_CompactionKeepsASubset ==
    [][ /\ (pc = "sleep" /\ Cardinality(processed_ids) <= CompactKeep)
           => processed_ids' = processed_ids
        /\ (pc \in Polling /\ pc' \in Polling /\ ~(processed_ids \subseteq processed_ids'))
           => /\ pc = "sleep"
              /\ checked' > CleanupPeriod
              /\ Cardinality(processed_ids) > CompactKeep
              /\ processed_ids' \subseteq processed_ids
              /\ Cardinality(processed_ids') = CompactKeep
      ]_vars

(* A cleanup cut the set down to CompactKeep ids and removed the id of a   *)
(* message of this run.                                                    *)
C10_Witness ==
    /\ pc = "fetch"
    /\ checked > CleanupPeriod
    /\ dropped \cap MsgIds # {}
    /\ Cardinality(processed_ids) = CompactKeep

(* C11: in a run nobody terminates, a step taken in the polling loop stays *)
(* in the polling loop whatever faults the fetch, the backend call, the    *)
(* reply or the file raise, and as long as the poll budget of the model    *)
(* lasts every state of the loop is followed by a new poll.                *)
C11_FaultsNeverEndPolling ==
    /\ [][ (pc \in Polling) => (pc' \in Polling) ]_vars
    /\ \A c \in 0..(MaxCycles - 1) :
           (pc \in Polling /\ cycles = c) ~> (cycles = c + 1)

(* The first poll raised, the handler of line 209 slept (no cleanup has    *)
(* read the clock yet), and the second poll fetched messages.              *)
C11_Witness ==
    /\ pc = "process"
    /\ cycles = 2
    /\ checked = 0
    /\ elapsed > CleanupPeriod

(* C12: when the process has ended, by a refused login, an interrupt or    *)
(* an uncaught fault, after a successful login or without one,             *)
(* disconnect() has been called at least once for every client the run     *)
(* obtained: the client of each main() frame, logins + 1 of them.          *)
C12_EveryClientIsDisconnected == pc = "done" => disconnects >= logins + 1

(* The run logged in, started main() again with a new client and ended:    *)
(* both clients were disconnected.                                         *)
C12_Witness == pc = "done" /\ logins = 1 /\ disconnects = 3

(* The places of the events of kind op for message id. *)
EventsOf(op, id) == {i \in 1..Len(events) : events[i].op = op /\ events[i].id = id}

(* piece directly followed by text among the pieces of prompt *)
Follows(prompt, piece, text) ==
    \E k \in 1..(Len(prompt) - 1) : prompt[k] = piece /\ prompt[k + 1] = text

(* C13: when the messages of a poll have been handled, every message the   *)
(* backend answered with a result had one backend call, whose prompt holds *)
(* "Current message: " followed by its text, and one reply, whose text is  *)
(* the content of the result if the result is a mapping with a content and *)
(* str(result) otherwise; and its id is in processed_ids and among the ids *)
(* the file yields.                                                        *)
C13_ResultIsAnsweredOnceAndMarked ==
    pc = "sleep" =>
        \A i \in 1..Len(events) :
            (events[i].op = "call" /\ events[i].answer = "result") =>
                LET id == events[i].id
                    m == messages[FetchedAt(id)]
                    r == events[i].result
                IN  /\ EventsOf("call", id) = {i}
                    /\ Follows(events[i].prompt, "Current message: ", m.text.s)
                    /\ EventsOf("reply", id) = {i + 1}
                    /\ events[i + 1].text = (IF r.isDict /\ r.has THEN r.field ELSE r.str)
                    /\ id \in processed_ids
                    /\ id \in load_processed_ids(processed_file, FALSE)

(* C14: every reply follows at once a backend call for the same message    *)
(* that returned a result, and its text is taken from that result (its     *)
(* content, or str of it) and is no error message; a call that returned an *)
(* error or an unrecognized value, or raised, has no reply.                *)
C14_RepliesOnlyResults ==
    /\ \A j \in 1..Len(events) :
           events[j].op = "reply" =>
               /\ j > 1
               /\ events[j - 1].op = "call"
               /\ events[j - 1].id = events[j].id
               /\ events[j - 1].answer = "result"
               /\ events[j].text \in {events[j - 1].result.field, events[j - 1].result.str}
               /\ events[j].text \notin {ErrorText(e) : e \in ErrorValues}
    /\ \A i \in 1..Len(events) :
           (events[i].op = "call" /\ events[i].answer # "result")
           => EventsOf("reply", events[i].id) = {}

(* In one poll the backend returned a result for one message, which was    *)
(* answered, and an error or an unrecognized value, or raised a fault,     *)
(* for the other message, which was not.                                   *)
C14_Witness ==
    /\ pc = "sleep"
    /\ \E i \in 1..Len(events), j \in 1..Len(events) :
          /\ events[i].op = "call" /\ events[i].answer \in {"error", "unrecognized", "fault"}
          /\ replyCount[events[i].id] = 0
          /\ events[j].op = "reply" /\ events[j].id # events[i].id

(* C15: the iteration on a message that is incoming, has text and whose id *)
(* is not in processed_ids ends with the id in processed_ids and a line    *)
(* for the id in the file, whether or not the message is private and       *)
(* whatever the backend and the reply did.                                 *)
C15_PassedMessageEndsMarked ==
    [][ (MsgStep /\ LET m == messages[Len(messages) - idx] IN
                       ~m.out /\ Truthy(m.text) /\ m.id \notin processed_ids)
        => LET id == messages[Len(messages) - idx].id IN
           /\ id \in processed_ids'
           /\ \E j \in 1..Len(processed_file') : processed_file'[j] = FormatLine(id)
      ]_vars

(* C16: a call of build_prompt_with_history (the step of the memory that   *)
(* appends no entry) leaves conversation_history, its users and their      *)
(* lists, processed_ids and the file as they were.                         *)
C16_BuildHasNoSideEffect ==
    [][ (pc = "history" /\ appended' = appended)
        => /\ DOMAIN conversation_history' = DOMAIN conversation_history
           /\ conversation_history' = conversation_history
           /\ processed_ids' = processed_ids
           /\ processed_file' = processed_file
      ]_vars

CompactionStep ==
    /\ pc = "sleep"
    /\ checked' > CleanupPeriod
    /\ Cardinality(processed_ids) > CompactKeep

(* C18: every step of the polling loop that is no compaction (a poll, the  *)
(* handling of a message, a sleep with no cleanup or with a cleanup of a   *)
(* small set) leaves processed_ids a superset of what it was.              *)
C18_SetGrowsBetweenCompactions ==
    [][ (pc \in Polling /\ pc' \in Polling /\ ~CompactionStep)
        => processed_ids \subseteq processed_ids'
      ]_vars

(* The set grew past CompactKeep ids and went through the sleep of a cycle *)
(* without losing one.                                                     *)
C18_Witness ==
    /\ pc = "fetch"
    /\ checked > 0
    /\ dropped = {}
    /\ Cardinality(processed_ids) = CompactKeep + 2

(* The pieces at places k, k + 1, ... of prompt are those of pieces. *)
HoldsAt(prompt, k, pieces) ==
    /\ k + Len(pieces) - 1 <= Len(prompt)
    /\ \A n \in 1..Len(pieces) : prompt[k + n - 1] = pieces[n]

(* C19: the prompt of every backend call opens its history block with      *)
(* "Previous conversation:" and ends it with the line "User: <text>" of    *)
(* the message being handled, followed by "Current message: <text>"; the   *)
(* turn (User, text) is in the sender's stored history from then on,       *)
(* whatever the backend answered, and it is the last entry of that history *)
(* when the handling of the message ends.                                  *)
C19_UserTurnPrecedesPrompt ==
    \A i \in 1..Len(events) :
        events[i].op = "call" =>
            LET m == messages[FetchedAt(events[i].id)]
                text == m.text.s
                prompt == events[i].prompt
                stored == HistoryOf(conversation_history, m.sender_id)
            IN  /\ prompt[3] = "Previous conversation:\n"
                /\ \E k \in 4..Len(prompt) :
                       HoldsAt(prompt, k, <<"User", ": ", text, "\n", "\n",
                                            "Current message: ", text>>)
                /\ stored # <<>>
                /\ \E n \in 1..Len(stored) : stored[n] = <<"User", text>>
                /\ (idx >= 1 /\ messages[Len(messages) - idx + 1].id = m.id)
                   => stored[Len(stored)] = <<"User", text>>

(* The backend call for the second message of a sender raised: no reply    *)
(* was sent, and the turn is the last of the two in the sender's history.  *)
C19_Witness ==
    /\ pc = "sleep"
    /\ Len(messages) = 2
    /\ Len(events) >= 2
    /\ LET e == events[Len(events)]
           m == messages[FetchedAt(e.id)]
           stored == HistoryOf(conversation_history, m.sender_id)
       IN  /\ e.op = "call" /\ e.answer = "fault"
           /\ replyCount[e.id] = 0
           /\ m.text.s = "and then?"
           /\ Len(stored) = 2
           /\ stored[2] = <<"User", m.text.s>>

(* The lines of the file that hold the id. *)
LinesOf(file, id) == {j \in 1..Len(file) : file[j] = FormatLine(id)}

(* C20: in the first run of the program over an empty file (no compaction  *)
(* happens in it), the file holds at most one line for every message id.   *)
C20_IdIsAppendedAtMostOnce ==
    runs = 1 => \A id \in MsgIds : Cardinality(LinesOf(processed_file, id)) <= 1

====
